---------------------------- MODULE Spec2Model ----------------------------
(***************************************************************************)
(* Model of telegram_bot_cloud.py: the in-memory AC session state          *)
(* (ac_state), the ACController gateway operations (control_ac,            *)
(* get_status), the callback-query handler branches and the single         *)
(* shut-off timer task created by set_ac_timer.                            *)
(*                                                                         *)
(* Scheduling.  The Application is built with its defaults, so updates are *)
(* handled one at a time: at most one handler is in flight (variable h).   *)
(* Timer tasks are separate asyncio tasks and interleave with the handler  *)
(* at every await.  An action is the code between two awaits that touch    *)
(* the session state or the gateway.  Calls to the chat transport          *)
(* (answer, edit_message_text, send_message) are taken to succeed.         *)
(*                                                                         *)
(* Gateway.  The Switcher API is opaque: a command that was sent is        *)
(* either applied by the device or not, and the awaited call then either   *)
(* returns or raises.  Time is counted in minutes.                         *)
(***************************************************************************)
EXTENDS Integers, FiniteSets, Sequences, TLC

\* ------------------------------------------------------------------ bounds
\* Number of timer task objects kept at a time: a task that has finished and
\* is no longer in the slot is forgotten when a new timer needs its place.
MaxTasks == 2
\* Last value of the clock.
MaxTime == 2

\* --------------------------------------------------------------- constants
\* Python's None, for a task handle and for a timestamp.
None == 0
\* The temperature menu's range, list(range(16, 31)).
MinTemp == 16
MaxTemp == 30
\* The temperature of the initial ac_state and of the timer's shut-off call.
DefaultTemp == 24

AUTHORIZED_CHAT_IDS == {1, 2}
\* Chats an update can come from: an authorized one and a stranger.
ChatIds == {1, 3}

Modes == {"COOL", "HEAT", "FAN"}
\* Temperatures a temp_<t> callback can carry: one the menu offers and the
\* first one above its range.
TempInputs == {MinTemp, MaxTemp + 1}
\* The states a poll of the device can return: the device has its own remote
\* control, so a poll is not tied to the last command of the bot.
Snapshots == [power : BOOLEAN, mode : Modes, temperature : {MinTemp}]
\* Durations a timer_<minutes> callback carries, in units of the clock.
TimerMinutes == {1, 2}
TaskIds == 1..MaxTasks

\* Outcome of one gateway command: applied and answered, applied but the
\* awaited call raised, or not applied and the call raised.
GatewayOutcomes == {"ok", "fail_applied", "fail"}

VARIABLES
    ac_state,   \* the global dict ac_state
    tasks,      \* the asyncio tasks created by set_ac_timer, by id
    h,          \* the handler in flight
    now,        \* the clock
    ev,         \* history: the last step the program took
    hist,       \* history: how each timer left the slot
    chain,      \* history: two successful toggles with no operation in between
    dev         \* the command the device applied last; only DeviceSpec follows it

vars == <<ac_state, tasks, h, now, ev, hist, chain, dev>>

\* ------------------------------------------------------------------ helpers
NoArgs == [power |-> FALSE, mode |-> "COOL", temperature |-> None]

IdleHandler ==
    [pc |-> "idle", op |-> "none", readOn |-> FALSE, args |-> NoArgs,
     out |-> "none", calls |-> 0]

NoTask == [st |-> "unborn", minutes |-> 0, wake |-> None, out |-> "none"]

NoHist == [how |-> "none", at |-> "none"]

\* chain.n: 0 no toggle under way, 1 a first toggle under way, 2 it succeeded,
\* 3 a second toggle under way right after it, 4 it succeeded too; chain.orig
\* is is_on as the first toggle read it.
NoChain == [n |-> 0, orig |-> FALSE]

Event(op, by, ok) == [op |-> op, by |-> by, ok |-> ok]

\* The first step of a handler: the event also names the chat of the update.
HandlerEvent(op, by, ok, chat) == [op |-> op, by |-> by, ok |-> ok, chat |-> chat]

\* A task that has been created and has not finished.
Pending(st) == st \in {"created", "sleeping", "call", "wait", "msg_ok", "msg_fail"}

Applied(out) == out \in {"ok", "fail_applied"}

\* The places a new task can take: of no task yet, or of a finished task that
\* the slot does not hold.
Free(s, ts) == {t \in TaskIds : ~Pending(ts[t].st) /\ t # s.timer_task}

\* An authorization check that lets every chat in.
check_authorization_any(chat) == chat \in ChatIds

\* check_authorization, lines 158-164.
check_authorization(chat) == chat \in AUTHORIZED_CHAT_IDS

\* --------------------------------------------------------------- ACController
\* A control_ac that drops the timer when it turns the AC off.
control_ac_update_drops_timer(s, args, t) ==
    [s EXCEPT !.is_on = args.power,
              !.mode = args.mode,
              !.temperature = args.temperature,
              !.last_updated = t,
              !.timer_task = IF args.power THEN @ ELSE None,
              !.timer_end = IF args.power THEN @ ELSE None]

\* control_ac, lines 102-107: the update after the awaited command returned.
control_ac_update(s, args, t) ==
    [s EXCEPT !.is_on = args.power,
              !.mode = args.mode,
              !.temperature = args.temperature,
              !.last_updated = t]

\* A control_ac whose failure path still stamps the state.
control_ac_failed_stamps(s, args, t) == [s EXCEPT !.last_updated = t]

\* control_ac, lines 111-113: the except branch touches nothing.
control_ac_failed(s, args, t) == s

\* A get_status that does not copy the polled mode.
get_status_update_keeps_mode(s, d, t) ==
    [s EXCEPT !.is_on = d.power, !.temperature = d.temperature, !.last_updated = t]

\* get_status, lines 67-72: the update from the polled state.
get_status_update(s, d, t) ==
    [s EXCEPT !.is_on = d.power,
              !.mode = d.mode,
              !.temperature = d.temperature,
              !.last_updated = t]

\* get_status, lines 75-77: the except branch touches nothing.
get_status_failed(s, t) == s

\* A cancel() that the task does not notice.
TaskCancelIgnored(ts, t) == ts

\* A cancel() that stops a task only while it still sleeps.
TaskCancelOnlyWaiting(ts, t) ==
    IF ts[t].st \in {"created", "sleeping"}
    THEN [ts EXCEPT ![t].st = "cancelled", ![t].minutes = 0, ![t].wake = None]
    ELSE ts

\* Task.cancel(): a task that has not finished gets CancelledError at the
\* await it is suspended in (CancelledError is not an Exception, so control_ac
\* does not catch it) and runs no further statement; a finished task ignores it.
TaskCancel(ts, t) ==
    IF Pending(ts[t].st)
    THEN [ts EXCEPT ![t].st = "cancelled", ![t].minutes = 0, ![t].wake = None]
    ELSE ts

\* ---------------------------------------------------------------------- Init
Init ==
    /\ ac_state = [is_on |-> FALSE, mode |-> "COOL", temperature |-> DefaultTemp,
                   last_updated |-> None, timer_task |-> None, timer_end |-> None]
    /\ tasks = [t \in TaskIds |-> NoTask]
    /\ h = IdleHandler
    /\ now = 1
    /\ ev = Event("init", 0, TRUE)
    /\ dev = NoArgs
    /\ hist = [t \in TaskIds |-> NoHist]
    /\ chain = NoChain


\* ------------------------------------------------ handle_callback_query
\* Lines 338-340 (and 296-298, 314-316, 443-445): an update from a chat that
\* is not on the allow-list is answered and dropped.
HandleUnauthorized(chat) ==
    /\ h.pc = "idle"
    /\ ~check_authorization(chat)
    /\ ev' = HandlerEvent("unauthorized", 0, FALSE, chat)
    /\ UNCHANGED <<ac_state, tasks, h, now, hist, chain, dev>>

\* start, handle_text_message and the branches set_state, set_temp, set_timer,
\* refresh, back_to_main: they render ac_state and change nothing.
HandleRender(chat) ==
    /\ h.pc = "idle"
    /\ check_authorization(chat)
    /\ ev' = HandlerEvent("render", 0, TRUE, chat)
    /\ chain' = NoChain
    /\ UNCHANGED <<ac_state, tasks, h, now, hist, dev>>

\* toggle_power, lines 347-351 / 357-359: is_on is read, then the handler
\* awaits the "Turning AC ..." edit.
TogglePowerRead(chat) ==
    /\ h.pc = "idle"
    /\ check_authorization(chat)
    /\ h' = [IdleHandler EXCEPT !.pc = "toggle_edit", !.op = "toggle",
                                !.readOn = ac_state.is_on]
    /\ ev' = HandlerEvent("toggle_read", 0, TRUE, chat)
    /\ chain' = IF chain.n = 2 THEN [chain EXCEPT !.n = 3]
                               ELSE [n |-> 1, orig |-> ac_state.is_on]
    /\ UNCHANGED <<ac_state, tasks, now, hist, dev>>

\* A toggle that always asks for ON.
ToggleArgsAlwaysOn(readOn, s) ==
    [power |-> TRUE, mode |-> "COOL", temperature |-> s.temperature]

\* The arguments of the toggle's control_ac call, lines 352 and 360.
ToggleArgs(readOn, s) ==
    [power |-> ~readOn, mode |-> "COOL", temperature |-> s.temperature]

\* toggle_power, lines 352 / 360: the call's arguments are evaluated after
\* the edit, and control_ac starts (it awaits the connection).
TogglePowerCall ==
    /\ h.pc = "toggle_edit"
    /\ h' = [h EXCEPT !.pc = "call", !.args = ToggleArgs(h.readOn, ac_state)]
    /\ ev' = Event("toggle_call", 0, TRUE)
    /\ UNCHANGED <<ac_state, tasks, now, hist, chain, dev>>

\* The arguments of the temp_<t> branch's control_ac call, line 398.
TempArgs(t) == [power |-> TRUE, mode |-> "COOL", temperature |-> t]

\* temp_<t>, lines 394-398: no check of t; control_ac starts.
SetTemperature(chat, t) ==
    /\ h.pc = "idle"
    /\ check_authorization(chat)
    /\ h' = [IdleHandler EXCEPT !.pc = "call", !.op = "temp", !.args = TempArgs(t)]
    /\ ev' = HandlerEvent("temp_call", 0, TRUE, chat)
    /\ chain' = NoChain
    /\ UNCHANGED <<ac_state, tasks, now, hist, dev>>

\* control_ac called from a handler, lines 83-100: the command is sent and
\* the gateway's outcome is one of outs.
control_ac_call(outs) ==
    /\ h.pc = "call"
    /\ \E out \in outs :
          h' = [h EXCEPT !.pc = "wait", !.out = out, !.calls = h.calls + 1]
    /\ ev' = Event("send", 0, TRUE)
    /\ UNCHANGED <<ac_state, tasks, now, hist, chain>>

ControlAcSend ==
    /\ control_ac_call(GatewayOutcomes)
    /\ UNCHANGED dev

\* control_ac called from a handler, lines 102-113, and the handler's last
\* lines (353-366, 399-403): the result is rendered.
ControlAcReturn ==
    /\ h.pc = "wait"
    /\ ac_state' = IF h.out = "ok" THEN control_ac_update(ac_state, h.args, now)
                                   ELSE control_ac_failed(ac_state, h.args, now)
    /\ ev' = Event(h.op, 0, h.out = "ok")
    /\ h' = IdleHandler
    /\ chain' = IF h.op = "toggle" /\ h.out = "ok" /\ chain.n \in {1, 3}
                THEN [chain EXCEPT !.n = chain.n + 1]
                ELSE NoChain
    /\ UNCHANGED <<tasks, now, hist, dev>>

\* status, lines 405-408: get_status starts (lines 61-64).
StatusPoll(chat) ==
    /\ h.pc = "idle"
    /\ check_authorization(chat)
    /\ h' = [IdleHandler EXCEPT !.pc = "poll", !.op = "status"]
    /\ ev' = HandlerEvent("status_call", 0, TRUE, chat)
    /\ chain' = NoChain
    /\ UNCHANGED <<ac_state, tasks, now, hist, dev>>

\* get_status, lines 64-77, and the handler's last lines (409-413).
GetStatusReturn ==
    /\ h.pc = "poll"
    /\ \/ \E snap \in Snapshots :
             /\ ac_state' = get_status_update(ac_state, snap, now)
             /\ ev' = [op |-> "status", by |-> 0, ok |-> TRUE, snap |-> snap]
       \/ /\ ac_state' = get_status_failed(ac_state, now)
          /\ ev' = Event("status", 0, FALSE)
    /\ h' = IdleHandler
    /\ chain' = NoChain
    /\ UNCHANGED <<tasks, now, hist, dev>>

\* A manual override that also puts the temperature back to the default.
manual_state_resets_temperature(s, on, t) ==
    [s EXCEPT !.is_on = on, !.temperature = DefaultTemp, !.last_updated = t]

\* manual_state_on / manual_state_off, lines 374-386.
manual_state(s, on, t) == [s EXCEPT !.is_on = on, !.last_updated = t]

ManualState(chat, on) ==
    /\ h.pc = "idle"
    /\ check_authorization(chat)
    /\ ac_state' = manual_state(ac_state, on, now)
    /\ ev' = [op |-> "manual", by |-> 0, ok |-> TRUE, chat |-> chat, on |-> on]
    /\ chain' = NoChain
    /\ UNCHANGED <<tasks, h, now, hist, dev>>

\* ------------------------------------------------------------ set_ac_timer
\* A set_ac_timer that keeps the deadline of the timer it replaces.
set_ac_timer_keeps_deadline(s, id, minutes, t) ==
    [s EXCEPT !.timer_end = IF s.timer_end # None THEN s.timer_end ELSE t + minutes,
              !.timer_task = id]

\* set_ac_timer, lines 268-272 and 291: the task in the slot is cancelled, the
\* deadline is set and a new task is created and stored.
set_ac_timer(s, id, minutes, t) ==
    [s EXCEPT !.timer_end = t + minutes, !.timer_task = id]

\* timer_<minutes>, lines 421-425.
SetTimer(chat, minutes) ==
    /\ h.pc = "idle"
    /\ check_authorization(chat)
    /\ Free(ac_state, tasks) # {}
    /\ LET id == CHOOSE t \in Free(ac_state, tasks) :
                     \A u \in Free(ac_state, tasks) : t <= u
           old == ac_state.timer_task
           cancelled == IF old # None THEN TaskCancel(tasks, old) ELSE tasks
       IN  /\ tasks' = [cancelled EXCEPT
                            ![id] = [NoTask EXCEPT !.st = "created", !.minutes = minutes]]
           /\ ac_state' = set_ac_timer(ac_state, id, minutes, now)
           /\ hist' = IF old # None
                      THEN [hist EXCEPT ![old] = [how |-> "replaced", at |-> tasks[old].st],
                                        ![id] = NoHist]
                      ELSE [hist EXCEPT ![id] = NoHist]
           /\ ev' = HandlerEvent("schedule", id, TRUE, chat)
    /\ chain' = NoChain
    /\ UNCHANGED <<h, now, dev>>

\* cancel_timer, lines 430-431: the slot is cleared.
cancel_timer(s) == [s EXCEPT !.timer_task = None, !.timer_end = None]

\* cancel_timer, lines 427-435.
CancelTimer(chat) ==
    /\ h.pc = "idle"
    /\ check_authorization(chat)
    /\ LET old == ac_state.timer_task
       IN  IF old # None
           THEN /\ tasks' = TaskCancel(tasks, old)
                /\ ac_state' = cancel_timer(ac_state)
                /\ hist' = [hist EXCEPT ![old] = [how |-> "reported", at |-> tasks[old].st]]
                /\ ev' = HandlerEvent("cancel_timer", old, TRUE, chat)
           ELSE /\ ev' = HandlerEvent("cancel_timer", 0, FALSE, chat)
                /\ UNCHANGED <<tasks, ac_state, hist>>
    /\ chain' = NoChain
    /\ UNCHANGED <<h, now, dev>>

\* timer_callback, line 275: the task starts and goes to sleep.
TimerStart(t) ==
    /\ tasks[t].st = "created"
    /\ tasks' = [tasks EXCEPT ![t].st = "sleeping", ![t].wake = now + tasks[t].minutes]
    /\ ev' = Event("timer_start", t, TRUE)
    /\ UNCHANGED <<ac_state, h, now, hist, chain, dev>>

\* The arguments of the timer's control_ac call, line 277.
TimerArgs == [power |-> FALSE, mode |-> "COOL", temperature |-> DefaultTemp]

\* timer_callback, lines 275-277: the sleep is over and control_ac starts.
TimerWake(t) ==
    /\ tasks[t].st = "sleeping"
    /\ now >= tasks[t].wake
    /\ tasks' = [tasks EXCEPT ![t].st = "call"]
    /\ ev' = Event("timer_wake", t, TRUE)
    /\ chain' = NoChain
    /\ UNCHANGED <<ac_state, h, now, hist, dev>>

\* control_ac called from the timer, lines 83-100: the command is sent and
\* the gateway's outcome is one of outs.
timer_control_ac_call(t, outs) ==
    /\ tasks[t].st = "call"
    /\ \E out \in outs :
          tasks' = [tasks EXCEPT ![t].st = "wait", ![t].out = out]
    /\ ev' = Event("timer_send", t, TRUE)
    /\ chain' = NoChain
    /\ UNCHANGED <<ac_state, h, now, hist>>

TimerSend(t) ==
    /\ timer_control_ac_call(t, GatewayOutcomes)
    /\ UNCHANGED dev

\* control_ac called from the timer, lines 102-113, up to the await of
\* send_message (line 279 or 286).
TimerReturn(t) ==
    /\ tasks[t].st = "wait"
    /\ IF tasks[t].out = "ok"
       THEN /\ ac_state' = control_ac_update(ac_state, TimerArgs, now)
            /\ tasks' = [tasks EXCEPT ![t].st = "msg_ok"]
       ELSE /\ ac_state' = control_ac_failed(ac_state, TimerArgs, now)
            /\ tasks' = [tasks EXCEPT ![t].st = "msg_fail"]
    /\ ev' = Event("timer_return", t, tasks[t].out = "ok")
    /\ chain' = NoChain
    /\ UNCHANGED <<h, now, hist, dev>>

\* An expiry that forgets the task but keeps the deadline.
timer_expired_keeps_deadline(s) == [s EXCEPT !.timer_task = None]

\* timer_callback, lines 283-284: after the expiry message the slot is cleared.
timer_expired(s) == [s EXCEPT !.timer_task = None, !.timer_end = None]

\* timer_callback, lines 285-289: after the failure message nothing is cleared.
timer_failed(s) == s

\* timer_callback, lines 279-289: the message was sent and the task ends.
TimerNotify(t) ==
    /\ tasks[t].st \in {"msg_ok", "msg_fail"}
    /\ ac_state' = IF tasks[t].st = "msg_ok" THEN timer_expired(ac_state)
                                             ELSE timer_failed(ac_state)
    /\ tasks' = [tasks EXCEPT ![t].st = "done", ![t].minutes = 0, ![t].wake = None]
    /\ ev' = Event("timer_done", t, tasks[t].st = "msg_ok")
    /\ chain' = NoChain
    /\ UNCHANGED <<h, now, hist, dev>>

\* ------------------------------------------------------------- environment
\* Time passes.
Tick ==
    /\ now < MaxTime
    /\ now' = now + 1
    /\ UNCHANGED <<ac_state, tasks, h, ev, hist, chain, dev>>

Next ==
    \/ \E chat \in ChatIds : HandleUnauthorized(chat)
    \/ \E chat \in ChatIds : HandleRender(chat)
    \/ \E chat \in ChatIds : TogglePowerRead(chat)
    \/ TogglePowerCall
    \/ \E chat \in ChatIds, t \in TempInputs : SetTemperature(chat, t)
    \/ ControlAcSend
    \/ ControlAcReturn
    \/ \E chat \in ChatIds : StatusPoll(chat)
    \/ GetStatusReturn
    \/ \E chat \in ChatIds, on \in BOOLEAN : ManualState(chat, on)
    \/ \E chat \in ChatIds, m \in TimerMinutes : SetTimer(chat, m)
    \/ \E chat \in ChatIds : CancelTimer(chat)
    \/ \E t \in TaskIds : TimerStart(t)
    \/ \E t \in TaskIds : TimerWake(t)
    \/ \E t \in TaskIds : TimerSend(t)
    \/ \E t \in TaskIds : TimerReturn(t)
    \/ \E t \in TaskIds : TimerNotify(t)
    \/ Tick

Spec == Init /\ [][Next]_vars

\* ------------------------------------------------------------------ claims
Idle(s) == s.timer_task = None /\ s.timer_end = None

Waiting(st) == st \in {"created", "sleeping"}

OutOfRange(t) == t < MinTemp \/ t > MaxTemp

\* The steps in which a gateway call returns with a failure: control_ac in a
\* handler, get_status in a handler, control_ac in the timer task.
HandlerControlFails ==
    h.pc = "wait" /\ h.out # "ok" /\ h'.pc = "idle"

HandlerStatusFails ==
    h.pc = "poll" /\ h'.pc = "idle" /\ ~ev'.ok

TimerControlFails(t) ==
    tasks[t].st = "wait" /\ tasks[t].out # "ok" /\ tasks'[t].st \notin {"wait", "cancelled"}

\* C1: a control_ac or get_status call whose gateway call fails leaves every
\* field of ac_state as it was and returns its failure value: the handler
\* finishes with the failure reported, the timer goes on to its failure message.
C1_FailedCallKeepsState ==
    [][ /\ HandlerControlFails => (ac_state' = ac_state /\ ev'.op = h.op /\ ~ev'.ok)
        /\ HandlerStatusFails => (ac_state' = ac_state /\ ev'.op = "status")
        /\ \A t \in TaskIds :
              TimerControlFails(t) =>
                  (ac_state' = ac_state /\ tasks'[t].st = "msg_fail" /\ ~ev'.ok)
      ]_vars

C1_Witness ==
    /\ ev.op = "temp" /\ ~ev.ok
    /\ ac_state.last_updated # None
    /\ ac_state.timer_task # None

\* C2: a temp_<t> request with t < 16 or t > 30 is rejected before any gateway
\* call: control_ac is never entered with such a temperature.
C2_OutOfRangeRejected ==
    (h.op = "temp" /\ OutOfRange(h.args.temperature)) => h.pc \notin {"call", "wait"}

\* C3: the session's temperature is always in [16, 30].
C3_TemperatureInRange ==
    ac_state.temperature \in MinTemp..MaxTemp

\* C4: when a schedule replaces a timer that is still waiting, exactly one
\* timer is pending afterwards (the new one, in the slot), the deadline is the
\* time of that schedule plus its minutes, and the replaced timer never sends
\* a gateway command, never sends a message and never writes ac_state.
ReplacesWaiting ==
    /\ ac_state.timer_task # None
    /\ ac_state'.timer_task \notin {None, ac_state.timer_task}
    /\ Waiting(tasks[ac_state.timer_task].st)

C4_ReplaceLeavesOneTimer ==
    /\ [][ ReplacesWaiting =>
             LET new == ac_state'.timer_task
             IN  /\ {t \in TaskIds : Pending(tasks'[t].st)} = {new}
                 /\ ac_state'.timer_end = now + tasks'[new].minutes
         ]_vars
    /\ [](\A t \in TaskIds :
             (hist[t].how = "replaced" /\ Waiting(hist[t].at)) =>
                 (tasks[t].st = "cancelled" /\ tasks[t].out = "none"))

C4_Witness ==
    \E t, u \in TaskIds :
        /\ hist[t].how = "replaced" /\ hist[t].at = "sleeping"
        /\ tasks[u].st = "done" /\ tasks[u].out = "ok"

\* C5: a cancel_timer handled while the timer is still waiting leaves the slot
\* Idle, and that timer never sends a gateway command or a message afterwards.
C5_CancelStopsTimer ==
    /\ (ev.op = "cancel_timer" /\ ev.ok) => Idle(ac_state)
    /\ \A t \in TaskIds :
          (hist[t].how = "reported" /\ Waiting(hist[t].at)) =>
              (tasks[t].st = "cancelled" /\ tasks[t].out = "none")

C5_Witness ==
    \E t \in TaskIds :
        /\ hist[t].how = "reported" /\ hist[t].at = "sleeping"
        /\ now > 1
        /\ ev.op = "cancel_timer" /\ ev.ok

\* C6: a timer whose cancel was reported while its task was still running has
\* not had its OFF command applied by the device and has not written ac_state.
C6_CancelledNeverApplied ==
    \A t \in TaskIds :
        (hist[t].how = "reported" /\ Pending(hist[t].at)) =>
            (~Applied(tasks[t].out) /\ hist[t].at # "msg_ok")

\* C7: once a timer's fire has completed, with either gateway outcome, the
\* slot is Idle.
C7_FireLeavesIdle ==
    ev.op = "timer_done" => Idle(ac_state)

\* The step in which the timer's control_ac returns successfully.
TimerControlSucceeds(t) ==
    tasks[t].st = "wait" /\ tasks[t].out = "ok" /\ tasks'[t].st = "msg_ok"

\* C8: a successful fire leaves is_on false and mode and temperature as they
\* were just before it, and the slot Idle once the fire has completed.
C8_FireKeepsModeAndTemperature ==
    /\ [][ \A t \in TaskIds :
              TimerControlSucceeds(t) =>
                  /\ ac_state'.is_on = FALSE
                  /\ ac_state'.mode = ac_state.mode
                  /\ ac_state'.temperature = ac_state.temperature
         ]_vars
    /\ []((ev.op = "timer_done" /\ ev.ok) => Idle(ac_state))

\* The step in which the toggle's control_ac returns successfully.
ToggleSucceeds ==
    h.op = "toggle" /\ h.pc = "wait" /\ h.out = "ok" /\ h'.pc = "idle"

\* C9: a toggle sends one gateway command, whose power is the negation of the
\* is_on read at its start; after a successful call is_on is that power, and
\* two successful toggles with no operation in between restore is_on.
C9_ToggleNegatesPower ==
    /\ [][ /\ (h.pc = "idle" /\ h'.op = "toggle") => h'.readOn = ac_state.is_on
           /\ ToggleSucceeds => (ac_state'.is_on = ~h.readOn /\ h.calls = 1)
         ]_vars
    /\ []((h.op = "toggle" /\ h.pc \in {"call", "wait"}) =>
              (h.args.power = ~h.readOn /\ h.calls = IF h.pc = "wait" THEN 1 ELSE 0))
    /\ [](chain.n = 4 => ac_state.is_on = chain.orig)

C9_Witness ==
    /\ chain.n = 4
    /\ ev.op = "toggle" /\ ev.ok
    /\ ac_state.is_on = FALSE
    /\ ac_state.timer_task # None

\* C10: the toggle's control_ac is called with the session's current mode and
\* temperature.
C10_TogglePassesModeAndTemperature ==
    ev.op = "toggle_call" =>
        (h.args.mode = ac_state.mode /\ h.args.temperature = ac_state.temperature)

\* The step in which get_status returns the polled state.
HandlerStatusSucceeds ==
    h.pc = "poll" /\ h'.pc = "idle" /\ ev'.ok

\* C11: a successful get_status sets is_on, mode and temperature to the polled
\* snapshot's values and last_updated to the time of the call, whatever the
\* state was, and leaves timer_task and timer_end alone.
C11_RefreshCopiesSnapshot ==
    [][ HandlerStatusSucceeds =>
            ac_state' = [ac_state EXCEPT !.is_on = ev'.snap.power,
                                         !.mode = ev'.snap.mode,
                                         !.temperature = ev'.snap.temperature,
                                         !.last_updated = now]
      ]_vars

C11_Witness ==
    /\ ev.op = "status" /\ ev.ok
    /\ ev.snap = [power |-> TRUE, mode |-> "HEAT", temperature |-> MinTemp]
    /\ ac_state.mode = "HEAT"
    /\ ac_state.timer_task # None
    /\ ac_state.last_updated = MaxTime

\* A step of ManualState: the only steps that end in a "manual" event and
\* change anything (Tick keeps the event and ac_state).
ManualStep ==
    ev'.op = "manual" /\ ~(UNCHANGED <<ac_state, ev>>)

\* C12: manual_state_on / manual_state_off issue no gateway call, always
\* succeed, set is_on to the requested value and last_updated to the current
\* time, and leave mode, temperature, timer_task and timer_end unchanged.
C12_ManualOverrideOnlySetsPower ==
    [][ ManualStep =>
            /\ ev'.ok
            /\ ac_state' = [ac_state EXCEPT !.is_on = ev'.on, !.last_updated = now]
            /\ h.pc = "idle" /\ h' = h
            /\ tasks' = tasks
      ]_vars

C12_Witness ==
    /\ ev.op = "manual" /\ ev.on
    /\ ac_state.is_on
    /\ ac_state.mode = "HEAT"
    /\ ac_state.temperature = MinTemp
    /\ ac_state.timer_task # None
    /\ ac_state.last_updated = MaxTime

\* C13: in every state timer_task and timer_end are both None or both set;
\* no state has a task without a deadline or a deadline without a task.
C13_TaskAndDeadlineTogether ==
    (ac_state.timer_task = None) <=> (ac_state.timer_end = None)

\* Both are set while a timer waits, and both stay set after a fire whose
\* gateway call failed.
C13_Witness ==
    /\ ev.op = "timer_done" /\ ~ev.ok
    /\ ac_state.timer_task = ev.by
    /\ ac_state.timer_end # None
    /\ tasks[ev.by].st = "done"

\* The handler is between reading is_on (toggle) or issuing its gateway
\* call and writing the result.
HandlerInSection ==
    \/ h.op = "toggle" /\ h.pc \in {"toggle_edit", "call", "wait"}
    \/ h.op = "temp" /\ h.pc = "wait"

\* Timer task t has issued its gateway call and has not written the result.
TimerInSection(t) == tasks[t].st = "wait"

\* C14: writes of the session state are serialized. While an operation is
\* between reading is_on (toggle) or issuing its gateway call and writing the
\* resulting state, a step of any other operation leaves ac_state unchanged.
C14_MutationsSerialized ==
    [][ /\ (HandlerInSection /\ h' = h) => ac_state' = ac_state
        /\ \A t \in TaskIds :
               (TimerInSection(t) /\ tasks'[t] = tasks[t]) => ac_state' = ac_state
      ]_vars

\* The event is the first step of a handler for an update from a chat that
\* is not on the allow-list.
FromStranger(e) ==
    "chat" \in DOMAIN e /\ e.chat \notin AUTHORIZED_CHAT_IDS

\* C15: for an update from a chat that is not on the allow-list the handler
\* only rejects it: it runs no branch of any handler, makes no gateway call,
\* schedules or cancels no timer and changes nothing of ac_state.
C15_StrangerChangesNothing ==
    /\ [](FromStranger(ev) => ev.op = "unauthorized")
    /\ [][ (FromStranger(ev') /\ ev' # ev) =>
               /\ ac_state' = ac_state
               /\ tasks' = tasks
               /\ h' = h
         ]_vars

C15_Witness ==
    /\ FromStranger(ev) /\ ev.op = "unauthorized"
    /\ ac_state.is_on
    /\ ac_state.timer_task # None
    /\ tasks[ac_state.timer_task].st = "sleeping"

\* The slot holds a timer that has not finished.
SlotPending ==
    ac_state.timer_task # None /\ Pending(tasks[ac_state.timer_task].st)

\* A step of CancelTimer.
CancelStep ==
    ev'.op = "cancel_timer" /\ ev' # ev

\* C16: cancel_timer reports "Timer cancelled!" only when a timer is pending;
\* when none is pending (at the start, after a cancel, after a fire with
\* either outcome) it reports "No active timer to cancel" and changes nothing.
C16_CancelReportsOnlyPending ==
    [][ CancelStep =>
            IF SlotPending THEN ev'.ok
                           ELSE ~ev'.ok /\ ac_state' = ac_state
      ]_vars

\* ------------------------------------------------------------ fair scheduling
\* The steps of timer task t.
TimerStep(t) ==
    \/ TimerStart(t)
    \/ TimerWake(t)
    \/ TimerSend(t)
    \/ TimerReturn(t)
    \/ TimerNotify(t)

\* The event loop runs every task that can run, the gateway and Telegram
\* answer every call of a timer task, and time passes. Nothing is assumed of
\* the user, who may stop sending updates at any point.
FairSpec ==
    /\ Spec
    /\ \A t \in TaskIds : WF_vars(TimerStep(t))
    /\ WF_vars(Tick)

\* Timer t sleeps and its sleep ends within the time the model follows.
Scheduled(t) ==
    tasks[t].st = "sleeping" /\ tasks[t].wake <= MaxTime

\* Timer t was cancelled or replaced.
Removed(t) == hist[t].how # "none"

\* Timer t made its gateway call and finished, and the slot is Idle.
FiredAndIdle(t) ==
    tasks[t].st = "done" /\ tasks[t].out # "none" /\ Idle(ac_state)

\* C17: with fair scheduling of the timer tasks and a gateway that answers,
\* every scheduled timer that is never cancelled or replaced eventually fires
\* (makes its gateway call for OFF and finishes) and leaves the slot Idle.
C17_ScheduledTimerFiresAndClears ==
    \A t \in TaskIds : Scheduled(t) ~> (Removed(t) \/ FiredAndIdle(t))

\* The events of toggle_power, temp_<n>, status and manual_state_on / _off,
\* from their first step to their last.
StateOps ==
    {"toggle_read", "toggle_call", "temp_call", "send", "toggle", "temp",
     "status_call", "status", "manual"}

\* The events of timer_<minutes>, cancel_timer and the end of timer_callback.
TimerOps == {"schedule", "cancel_timer", "timer_done"}

SlotChanges ==
    \/ ac_state'.timer_task # ac_state.timer_task
    \/ ac_state'.timer_end # ac_state.timer_end

\* C18: only scheduling, cancelling and the fire change timer_task and
\* timer_end. Every step of toggle_power, set-temperature, refresh-status and
\* manual override, successful or failed, leaves both and every timer task
\* unchanged, so a pending timer stays scheduled and goes on to fire.
C18_OnlyTimerOpsChangeSlot ==
    [][ /\ SlotChanges => ev'.op \in TimerOps
        /\ ev'.op \in StateOps =>
               /\ ~SlotChanges
               /\ tasks' = tasks
      ]_vars

\* The toggle turned the AC off while the timer slept; the timer is still in
\* the slot and its fire has begun.
C18_Witness ==
    /\ ev.op = "toggle" /\ ev.ok
    /\ ~ac_state.is_on
    /\ ac_state.timer_task # None
    /\ tasks[ac_state.timer_task].st = "call"

\* ------------------------------------------------- the device under the bot
\* The gateway never fails: the handler's command is applied by the device.
DeviceControlAcSend ==
    /\ control_ac_call({"ok"})
    /\ dev' = h.args

\* The gateway never fails: the timer's command is applied by the device.
DeviceTimerSend(t) ==
    /\ timer_control_ac_call(t, {"ok"})
    /\ dev' = TimerArgs

\* A timer is scheduled while the slot is empty, so that no task is
\* cancelled while its command is under way.
DeviceSetTimer(chat, minutes) ==
    /\ ac_state.timer_task = None
    /\ SetTimer(chat, minutes)

\* The bot is the only one to change the device: the buttons that send a
\* command, the timer, and the clock. No manual override, no poll, no cancel.
DeviceNext ==
    \/ \E chat \in ChatIds : TogglePowerRead(chat)
    \/ TogglePowerCall
    \/ \E chat \in ChatIds, t \in TempInputs : SetTemperature(chat, t)
    \/ DeviceControlAcSend
    \/ ControlAcReturn
    \/ \E chat \in ChatIds, minutes \in TimerMinutes : DeviceSetTimer(chat, minutes)
    \/ \E t \in TaskIds : TimerStart(t)
    \/ \E t \in TaskIds : TimerWake(t)
    \/ \E t \in TaskIds : DeviceTimerSend(t)
    \/ \E t \in TaskIds : TimerReturn(t)
    \/ \E t \in TaskIds : TimerNotify(t)
    \/ Tick

DeviceSpec == Init /\ [][DeviceNext]_vars

\* No control_ac call awaits the gateway.
NoCallInFlight ==
    h.pc # "wait" /\ \A t \in TaskIds : tasks[t].st # "wait"

\* C19: with a gateway that never fails and a device that only the bot
\* changes, whenever no gateway call is in flight, is_on, mode and temperature
\* of ac_state are the arguments of the command the device applied last, for
\* every interleaving of a handler's control_ac with the timer's control_ac.
C19_SessionFollowsDevice ==
    (NoCallInFlight /\ dev # NoArgs) =>
        /\ ac_state.is_on = dev.power
        /\ ac_state.mode = dev.mode
        /\ ac_state.temperature = dev.temperature

\* C20: the fire of an older timer never clears or overwrites the slot of a
\* newer one. Once a timer is in the slot, timer_task and timer_end change
\* only when that timer's own fire ends, when it is cancelled, or when it is
\* replaced, at whatever point of its life the timer before it was replaced.
C20_OldFireKeepsNewSlot ==
    [][ (ac_state.timer_task # None /\ SlotChanges) =>
            \/ ev'.op \in {"schedule", "cancel_timer"}
            \/ ev'.op = "timer_done" /\ ev'.by = ac_state.timer_task
      ]_vars

\* The older timer was replaced after its OFF command had succeeded, while it
\* awaited the expiry message; the newer timer is in the slot and sleeps.
C20_Witness ==
    \E old, new \in TaskIds :
        /\ old # new
        /\ hist[old] = [how |-> "replaced", at |-> "msg_ok"]
        /\ tasks[old].st = "cancelled"
        /\ ac_state.timer_task = new
        /\ ac_state.timer_end # None
        /\ tasks[new].st = "sleeping"

=============================================================================
